---- MODULE Spec2Model ----
(***************************************************************************)
(* Model of src/app.py: the 311 record fetch (get_data), the attachment    *)
(* resolver (get_image_content, fetch_verint_image) and the feed display   *)
(* loop.  Text is modelled as sequences of one-character strings so that   *)
(* lower-casing, suffix tests, splitting and searching are computed the    *)
(* way the Python code computes them.                                      *)
(***************************************************************************)
EXTENDS Integers, Sequences, FiniteSets, TLC

(***************************************************************************)
(* Text helpers (Python str methods used by the code)                      *)
(***************************************************************************)
UpperChars == <<"A","B","C","D","E","F","G","H","I","J","K","L","M",
                "N","O","P","Q","R","S","T","U","V","W","X","Y","Z">>
LowerChars == <<"a","b","c","d","e","f","g","h","i","j","k","l","m",
                "n","o","p","q","r","s","t","u","v","w","x","y","z">>

\* str.lower() on one character
LowerChar(c) ==
    IF \E i \in 1..Len(UpperChars) : UpperChars[i] = c
    THEN LowerChars[CHOOSE i \in 1..Len(UpperChars) : UpperChars[i] = c]
    ELSE c

\* str.lower()
Lower(s) == [i \in 1..Len(s) |-> LowerChar(s[i])]

\* str.endswith(suffix)
EndsWith(s, suf) ==
    /\ Len(suf) <= Len(s)
    /\ SubSeq(s, Len(s) - Len(suf) + 1, Len(s)) = suf

\* str.endswith(tuple of suffixes)
EndsWithAny(s, sufs) == \E suf \in sufs : EndsWith(s, suf)

\* `sub in s` for strings
Contains(s, sub) ==
    \E i \in 1..(Len(s) - Len(sub) + 1) : SubSeq(s, i, i + Len(sub) - 1) = sub

\* index of the first occurrence of character c in s, 0 when absent
IndexOf(s, c) ==
    IF \E i \in 1..Len(s) : s[i] = c
    THEN CHOOSE i \in 1..Len(s) : s[i] = c /\ \A j \in 1..(i-1) : s[j] # c
    ELSE 0

\* s.split(c): the list of pieces of s between occurrences of character c
RECURSIVE Split(_, _)
Split(s, c) ==
    LET i == IndexOf(s, c)
    IN  IF i = 0 THEN <<s>>
        ELSE <<SubSeq(s, 1, i - 1)>> \o Split(SubSeq(s, i + 1, Len(s)), c)

\* str.strip() for the blank character
RECURSIVE Strip(_)
Strip(s) ==
    IF s = <<>> THEN s
    ELSE IF Head(s) = " " THEN Strip(Tail(s))
    ELSE IF s[Len(s)] = " " THEN Strip(SubSeq(s, 1, Len(s) - 1))
    ELSE s

(***************************************************************************)
(* Python values: None is a one-element tuple no text can equal            *)
(***************************************************************************)
None == <<"None">>

\* Python truthiness of a str / bytes / None value
Truthy(v) == v # None /\ v # <<>>

(***************************************************************************)
(* get_image_content: classification of a media reference                  *)
(***************************************************************************)
ImageExts == { <<".","j","p","g">>, <<".","j","p","e","g">>, <<".","p","n","g">>,
               <<".","g","i","f">>, <<".","w","e","b","p">>, <<".","b","m","p">> }

CaseIdWord == <<"c","a","s","e","i","d">>

\* clean_url = url.split('?')[0].lower()
CleanUrl(url) == Lower(Split(url, "?")[1])

\* clean_url.endswith(('.jpg', '.jpeg', '.png', '.gif', '.webp', '.bmp'))
IsDirectImage(url) == EndsWithAny(CleanUrl(url), ImageExts)

\* "caseid" in url.lower()
LooksLikeWrapper(url) == Contains(Lower(url), CaseIdWord)

\* url = media_item.get('url') if isinstance(media_item, dict) else media_item
\* A media item is [kind, url]: kind "none" (None), "nan" (the float NaN pandas
\* puts in a missing cell), "str" (a string), "dict" ({'url': url}; url = None
\* when the dict has no such key).
MediaUrl(m) == IF m.kind \in {"str", "dict"} THEN m.url ELSE None

(***************************************************************************)
(* fetch_verint_image, part A: the case id of the wrapper URL               *)
(***************************************************************************)
\* urlparse(url).query: the text between the first '?' and the fragment
UrlQuery(url) ==
    LET u == Split(url, "#")[1]
        i == IndexOf(u, "?")
    IN  IF i = 0 THEN <<>> ELSE SubSeq(u, i + 1, Len(u))

\* parse_qs keeps a name=value pair only when it has an '=' and a non-blank value
PairName(p)  == SubSeq(p, 1, IndexOf(p, "=") - 1)
PairValue(p) == SubSeq(p, IndexOf(p, "=") + 1, Len(p))
PairKept(p)  == IndexOf(p, "=") > 0 /\ PairValue(p) # <<>>

\* mutant: the parameter name is matched in any letter case
UrlCaseId_AnyCase(url) ==
    LET pairs == Split(UrlQuery(url), "&")
        hits  == { i \in 1..Len(pairs) :
                     PairKept(pairs[i]) /\ Lower(PairName(pairs[i])) = CaseIdWord }
    IN  IF hits = {} THEN None
        ELSE PairValue(pairs[CHOOSE i \in hits : \A j \in hits : i <= j])

\* qs.get('caseid', [None])[0]: the first kept value of the parameter named
\* exactly caseid.  (Percent-escapes and '+' are not part of the modelled texts.)
UrlCaseId(url) ==
    LET pairs == Split(UrlQuery(url), "&")
        hits  == { i \in 1..Len(pairs) : PairKept(pairs[i]) /\ PairName(pairs[i]) = CaseIdWord }
    IN  IF hits = {} THEN None
        ELSE PairValue(pairs[CHOOSE i \in hits : \A j \in hits : i <= j])

(***************************************************************************)
(* fetch_verint_image, step 2: the two regular-expression searches          *)
(***************************************************************************)
Quote == "\""
IsSpace(c) == c \in {" ", "\n", "\t"}

\* the first index >= i of html that holds no white space (Len(html)+1 at the end)
RECURSIVE SkipSpace(_, _)
SkipSpace(html, i) ==
    IF i <= Len(html) /\ IsSpace(html[i]) THEN SkipSpace(html, i + 1) ELSE i

\* html has the literal lit at index i
HasAt(html, i, lit) ==
    /\ i >= 1
    /\ i + Len(lit) - 1 <= Len(html)
    /\ SubSeq(html, i, i + Len(lit) - 1) = lit

\* "([^"]+)" at index q: q holds the opening quote; the value runs to the next
\* quote and is not empty.  The result is the value, or None.
QuotedAt(html, q) ==
    IF q > Len(html) \/ html[q] # Quote THEN None
    ELSE LET ends == { e \in (q + 1)..Len(html) : html[e] = Quote }
         IN  IF ends = {} THEN None
             ELSE LET e == CHOOSE x \in ends : \A y \in ends : x <= y
                  IN  IF e = q + 1 THEN None ELSE SubSeq(html, q + 1, e - 1)

FormrefLit == <<Quote,"f","o","r","m","r","e","f",Quote>>
CsrfNameLit == <<"n","a","m","e","=",Quote,"_","c","s","r","f","_","t","o","k","e","n",Quote>>
ContentLit == <<"c","o","n","t","e","n","t","=">>

\* the match of  "formref"\s*:\s*"([^"]+)"  that starts at index i, or None
FormrefAt(html, i) ==
    IF ~HasAt(html, i, FormrefLit) THEN None
    ELSE LET c == SkipSpace(html, i + Len(FormrefLit))
         IN  IF c > Len(html) \/ html[c] # ":" THEN None
             ELSE QuotedAt(html, SkipSpace(html, c + 1))

\* the match of  name="_csrf_token"\s+content="([^"]+)"  that starts at index i, or None
CsrfAt(html, i) ==
    IF ~HasAt(html, i, CsrfNameLit) THEN None
    ELSE LET a == i + Len(CsrfNameLit)
             c == SkipSpace(html, a)
         IN  IF c = a \/ ~HasAt(html, c, ContentLit) THEN None
             ELSE QuotedAt(html, c + Len(ContentLit))

\* re.search(...).group(1) for the formref pattern: the leftmost match, or None
ExtractFormref(html) ==
    LET at == { i \in 1..Len(html) : FormrefAt(html, i) # None }
    IN  IF at = {} THEN None
        ELSE FormrefAt(html, CHOOSE i \in at : \A j \in at : i <= j)

\* csrf_match.group(1) if csrf_match else None
ExtractCsrf(html) ==
    LET at == { i \in 1..Len(html) : CsrfAt(html, i) # None }
    IN  IF at = {} THEN None
        ELSE CsrfAt(html, CHOOSE i \in at : \A j \in at : i <= j)

(***************************************************************************)
(* fetch_verint_image, step 5: the choice of the file to download           *)
(***************************************************************************)
MapSuffixes == { <<"m",".","j","p","g">>,
                 <<"_","m","a","p",".","j","p","g">>,
                 <<"_","m","a","p",".","j","p","e","g">> }
AcceptedExts == { <<".","j","p","g">>, <<".","j","p","e","g">>, <<".","p","n","g">> }

\* the if ... continue of the loop body
SkippedAsMap(fname) == EndsWithAny(Lower(fname), MapSuffixes)

\* the if ... break of the loop body
AcceptedAsImage(fname) == EndsWithAny(Lower(fname), AcceptedExts)

\* the for loop over raw_files: the first stripped, non-empty name that is not
\* skipped and is accepted; None when the loop ends without a break
RECURSIVE SelectFile(_)
SelectFile(raw_files) ==
    IF raw_files = <<>> THEN None
    ELSE LET fname == Strip(Head(raw_files))
         IN  IF fname = <<>> THEN SelectFile(Tail(raw_files))
             ELSE IF SkippedAsMap(fname) THEN SelectFile(Tail(raw_files))
             ELSE IF AcceptedAsImage(fname) THEN fname
             ELSE SelectFile(Tail(raw_files))

\* filename_str.split(';') followed by the loop; filename_str is not empty
TargetFilename(filename_str) == SelectFile(Split(filename_str, ";"))

(***************************************************************************)
(* fetch_verint_image, step 6: base64.b64decode (non-validating)            *)
(***************************************************************************)
B64Alphabet == <<"A","B","C","D","E","F","G","H","I","J","K","L","M","N","O","P",
                 "Q","R","S","T","U","V","W","X","Y","Z","a","b","c","d","e","f",
                 "g","h","i","j","k","l","m","n","o","p","q","r","s","t","u","v",
                 "w","x","y","z","0","1","2","3","4","5","6","7","8","9","+","/">>

IsB64Char(c) == \E i \in 1..64 : B64Alphabet[i] = c
B64Value(c) == (CHOOSE i \in 1..64 : B64Alphabet[i] = c) - 1

\* characters outside ASCII make str.encode('ascii') raise ValueError
NonAscii == {"é"}

\* what b64decode raises (binascii.Error, ValueError); caught by the except
DecodeError == <<"DecodeError">>

\* a byte value 0..255, written as two hexadecimal digits
HexDigits == <<"0","1","2","3","4","5","6","7","8","9","a","b","c","d","e","f">>
Byte(n) == HexDigits[(n \div 16) + 1] \o HexDigits[(n % 16) + 1]

\* binascii.a2b_base64 in its default mode, one character at a time: quad is the
\* position in the current group of four, left the bits carried over, pads the
\* '=' seen in a row, out the bytes produced so far.
RECURSIVE B64Loop(_, _, _, _, _, _)
B64Loop(s, i, quad, left, pads, out) ==
    IF i > Len(s) THEN (IF quad # 0 THEN DecodeError ELSE out)
    ELSE IF s[i] = "=" THEN
        IF quad >= 2 /\ quad + pads + 1 >= 4 THEN out
        ELSE B64Loop(s, i + 1, quad, left, IF quad >= 2 THEN pads + 1 ELSE pads, out)
    ELSE IF ~IsB64Char(s[i]) THEN B64Loop(s, i + 1, quad, left, pads, out)
    ELSE LET v == B64Value(s[i])
         IN  CASE quad = 0 -> B64Loop(s, i + 1, 1, v, 0, out)
               [] quad = 1 -> B64Loop(s, i + 1, 2, v % 16, 0,
                                      Append(out, Byte(left * 4 + (v \div 16))))
               [] quad = 2 -> B64Loop(s, i + 1, 3, v % 4, 0,
                                      Append(out, Byte(left * 16 + (v \div 4))))
               [] quad = 3 -> B64Loop(s, i + 1, 0, 0, 0,
                                      Append(out, Byte(left * 64 + v)))

\* base64.b64decode(b64_data) for a str argument
B64Decode(s) ==
    IF \E i \in 1..Len(s) : s[i] \in NonAscii THEN DecodeError
    ELSE B64Loop(s, 1, 0, 0, 0, <<>>)

\* mutant: the piece in front of the comma is taken
StripDataUri_First(b64_data) ==
    IF IndexOf(b64_data, ",") > 0 THEN Split(b64_data, ",")[1] ELSE b64_data

\* if "," in b64_data: b64_data = b64_data.split(",")[1]
StripDataUri(b64_data) ==
    IF IndexOf(b64_data, ",") > 0 THEN Split(b64_data, ",")[2] ELSE b64_data

\* A response body as r.json() sees it: shape "raw" (bytes that are no JSON
\* document: json() raises), "list" (a JSON array), "object" (a JSON object).
\* An object has data = "absent" (no 'data' key) or "dict"; a dict carries the
\* fields formdata_filenames and txt_file, each a text or None when absent.
\* The code's return value for a download response with status 200.
UnwrapDownload(body) ==
    IF body.shape = "raw" THEN None                        \* json() raises: except
    ELSE IF body.shape = "object" /\ body.data = "dict" /\ body.txt_file # None
    THEN LET d == B64Decode(StripDataUri(body.txt_file))
         IN  IF d = DecodeError THEN None ELSE d
    ELSE None                                              \* falls to the last return

\* The filename_str of a listing response with status 200 ("" when the keys
\* are missing); json() raising is reported as DecodeError.
ListingFilenames(body) ==
    IF body.shape = "raw" THEN DecodeError
    ELSE IF body.shape = "object" /\ body.data = "dict" /\ body.formdata_filenames # None
    THEN body.formdata_filenames
    ELSE <<>>

(***************************************************************************)
(* Geo filter: get_min_distance_to_any_site and the filter of get_data      *)
(***************************************************************************)
\* radius_meters = 48.8, in decimetres
RadiusDm == 488

\* The three sites, in decimetres east (x) and north (y) of the first site.
\* At this scale the haversine distance of the code and the distance in the
\* plane differ by less than a centimetre, so lat/long are carried as y/x.
Sites == << [short_name |-> "Knox",      x |-> 0,     y |-> 0],
            [short_name |-> "Bayanihan", x |-> -2378, y |-> 1614],
            [short_name |-> "Isabel",    x |-> -3793, y |-> -274] >>

\* A cell of a JSON object or of a data-frame row: <<>> when the key is missing
\* (pandas: NaN), <<v>> when it holds v.
Absent == <<>>
Some(v) == <<v>>
IsAbsent(c) == c = <<>>
Val(c) == c[1]

DistSq(site, lat, long) == (long - site.x) * (long - site.x) + (lat - site.y) * (lat - site.y)

\* min_dist of a row, squared; -1 stands for the float inf the code returns when
\* a coordinate is NaN (every comparison with NaN is false, min_dist stays inf)
MinDistSq(lat, long) ==
    IF IsAbsent(lat) \/ IsAbsent(long) THEN -1
    ELSE LET d == { DistSq(Sites[i], Val(lat), Val(long)) : i \in 1..Len(Sites) }
         IN  CHOOSE m \in d : \A o \in d : m <= o

\* df_data['min_dist'] <= radius_meters
WithinRadius(row) ==
    LET m == MinDistSq(row.lat, row.long)
    IN  m >= 0 /\ m <= RadiusDm * RadiusDm

RowKeys == {"point", "lat", "long", "status_notes", "media_url", "service_subtype",
            "address", "service_request_id", "requested_datetime"}

\* the columns of pd.DataFrame(rows): the keys some row carries
Columns(rows) == { k \in RowKeys : \E i \in 1..Len(rows) : ~IsAbsent(rows[i][k]) }

EmptyDf == [cols |-> {}, rows |-> <<>>]

\* get_data for one upstream response: kind "exc" (the request or json() raised)
\* or "http" with a status and the rows of the JSON array
GetData(resp) ==
    IF resp.kind = "exc" THEN EmptyDf
    ELSE IF resp.status # 200 THEN EmptyDf
    ELSE LET cols == Columns(resp.rows)
         IN  IF resp.rows # <<>> /\ "point" \in cols /\ "lat" \in cols /\ "long" \in cols
             THEN [cols |-> cols \cup {"lon", "min_dist"},
                   rows |-> SelectSeq(resp.rows, WithinRadius)]
             ELSE [cols |-> cols, rows |-> resp.rows]

(***************************************************************************)
(* The texts and upstream behaviours the model draws its inputs from        *)
(***************************************************************************)
UDirect  == <<"x","/","i",".","j","p","g">>
UDirectQ == <<"x","/","p",".","J","P","G","?","c","a","s","e","i","d","=","1">>
UWrap1   == <<"v","/","f","?","c","a","s","e","i","d","=","1">>
UWrap2   == <<"v","/","f","?","a","=","b","&","c","a","s","e","i","d","=","2">>
\* wrapper-looking references without a usable caseid parameter
UWrapUpper == <<"v","/","f","?","C","a","s","e","I","D","=","3">>
UWrapBlank == <<"v","/","f","?","c","a","s","e","i","d","=">>
URedir   == <<"v","/","f","o","r","m">>
UPlain   == <<"x","/","p","a","g","e">>
UFixedReferer == <<"m","3","1","1","/">>

StrMedia(u)  == Some([kind |-> "str",  url |-> u])
DictMedia(u) == Some([kind |-> "dict", url |-> u])

NotesOpen == <<"O","p","e","n">>
NotesDup  == <<"D","u","p","l","i","c","a","t","e"," ","o","f"," ","B">>
Graffiti  == <<"g","r","a","f","f","i","t","i">>
Addr      == <<"8","8"," ","6","t","h">>
PavementDefect == <<"P","a","v","e","m","e","n","t","_","D","e","f","e","c","t">>

\* exclusions: the service_subtype values the $where of the query rules out
\* (the query is the only place where the code uses them)
ExcludedSubtypes ==
    {<<"g","a","r","b","a","g","e","_","a","n","d","_","d","e","b","r","i","s">>,
     <<"n","o","t","_","o","f","f","e","n","s","i","v","e">>,
     <<"T","o","t","e","r","s","_","l","e","f","t","_","o","u","t","_","2","4","x","7">>,
     <<"O","t","h","e","r","_","i","n","c","l","u","d","i","n","g","_","a","b","a","n","d","o","n","e","d","_","t","o","t","e","r">>,
     <<"O","t","h","e","r","_","I","l","l","e","g","a","l","_","P","a","r","k","i","n","g">>,
     <<"A","d","d","_","r","e","m","o","v","e","_","g","a","r","b","a","g","e","_","c","a","n">>,
     <<"C","i","t","y","_","g","a","r","b","a","g","e","_","c","a","n","_","o","v","e","r","f","l","o","w","i","n","g">>,
     <<"P","a","v","e","m","e","n","t","_","D","e","f","e","c","t">>,
     <<"S","i","d","e","w","a","l","k","_","D","e","f","e","c","t">>,
     <<"o","t","h","e","r","_","g","a","r","b","a","g","e","_","c","a","n","_","r","e","p","a","i","r">>}

\* a complete row inside the radius of the first site (40 m north of it)
BaseRow == [id |-> "base", point |-> Some(TRUE), lat |-> Some(400), long |-> Some(0),
            status_notes |-> Some(NotesOpen), media_url |-> StrMedia(UDirect),
            service_subtype |-> Some(Graffiti), address |-> Some(Addr),
            service_request_id |-> Some(<<"7">>), requested_datetime |-> Some(<<"t">>)]

RowDirect  == [BaseRow EXCEPT !.id = "direct"]
RowDirectQ == [BaseRow EXCEPT !.id = "directq", !.media_url = StrMedia(UDirectQ)]
RowWrap1   == [BaseRow EXCEPT !.id = "wrap1", !.media_url = DictMedia(UWrap1),
                              !.status_notes = Absent]
RowWrap2   == [BaseRow EXCEPT !.id = "wrap2", !.media_url = DictMedia(UWrap2)]
RowDup     == [BaseRow EXCEPT !.id = "dup", !.media_url = DictMedia(UWrap1),
                              !.status_notes = Some(NotesDup)]
\* 200 m south of the first site, the nearest one
RowFar     == [BaseRow EXCEPT !.id = "far", !.lat = Some(-2000)]
RowFarBare == [BaseRow EXCEPT !.id = "farbare", !.lat = Some(-2000), !.point = Absent]
RowEdge    == [BaseRow EXCEPT !.id = "edge", !.lat = Some(0), !.long = Some(488)]
RowNoAddr  == [BaseRow EXCEPT !.id = "noaddr", !.address = Absent]
RowNoLoc   == [BaseRow EXCEPT !.id = "noloc", !.point = Absent, !.lat = Absent,
                              !.long = Absent]

RowPlain   == [BaseRow EXCEPT !.id = "plain", !.media_url = StrMedia(UPlain)]
RowWrapUpper == [BaseRow EXCEPT !.id = "wrapupper", !.media_url = DictMedia(UWrapUpper)]
RowWrapBlank == [BaseRow EXCEPT !.id = "wrapblank", !.media_url = StrMedia(UWrapBlank)]
\* a row of an excluded subtype, should the upstream return one
RowExcluded == [BaseRow EXCEPT !.id = "excluded", !.service_subtype = Some(PavementDefect)]

RowPool == {RowDirect, RowDirectQ, RowPlain, RowWrap1, RowWrap2, RowDup, RowFar, RowFarBare,
            RowEdge, RowNoAddr, RowNoLoc, RowExcluded, RowWrapUpper, RowWrapBlank}

\* the most rows in one upstream response
MaxRows == 2

RECURSIVE SeqsUpTo(_, _)
SeqsUpTo(S, n) ==
    IF n = 0 THEN {<<>>}
    ELSE LET shorter == SeqsUpTo(S, n - 1)
         IN  shorter \cup { Append(q, e) : q \in { t \in shorter : Len(t) = n - 1 }, e \in S }

UpstreamResponses ==
    {[kind |-> "exc", status |-> 0, rows |-> <<>>],
     [kind |-> "http", status |-> 500, rows |-> <<RowDirect>>]}
    \cup { [kind |-> "http", status |-> 200, rows |-> r] : r \in SeqsUpTo(RowPool, MaxRows) }

\* wrapper pages
PageFull == <<"{">> \o FormrefLit \o <<" ",":"," ",Quote,"F","1",Quote,"}","<","m","e","t","a"," ">>
            \o CsrfNameLit \o <<" ">> \o ContentLit \o <<Quote,"T","1",Quote,">">>
PageNoCsrf == <<"{">> \o FormrefLit \o <<":",Quote,"F","2",Quote,"}">>
PageNoFormref == <<"<","m","e","t","a"," ">> \o CsrfNameLit \o <<" ">> \o ContentLit
                 \o <<Quote,"T","1",Quote,">">>

\* the session cookie the portal sets with its page
Sid == <<"S","1">>

\* what the page fetch can return: an exception (timeout, connection error) or
\* a response; redirected says whether r_page.url differs from the wrapper URL,
\* set_cookie is the cookie of its Set-Cookie header (None: no such header)
PageResponses ==
    {[kind |-> "exc",  status |-> 0,   redirected |-> FALSE, html |-> <<>>, set_cookie |-> None],
     [kind |-> "http", status |-> 404, redirected |-> FALSE, html |-> PageFull, set_cookie |-> None],
     [kind |-> "http", status |-> 200, redirected |-> TRUE,  html |-> PageFull, set_cookie |-> Sid],
     [kind |-> "http", status |-> 200, redirected |-> FALSE, html |-> PageNoCsrf, set_cookie |-> Sid],
     [kind |-> "http", status |-> 200, redirected |-> FALSE, html |-> PageNoFormref,
      set_cookie |-> Sid]}

Bearer == <<"B","1">>

\* what the handshake can return; auth is the Authorization response header
HandshakeResponses ==
    {[kind |-> "exc",  status |-> 0,   auth |-> None],
     [kind |-> "http", status |-> 200, auth |-> Bearer],
     [kind |-> "http", status |-> 200, auth |-> None],
     [kind |-> "http", status |-> 401, auth |-> None]}

RawBody == [shape |-> "raw", data |-> "absent", formdata_filenames |-> None,
            txt_file |-> None, bytes |-> <<Byte(255), Byte(216), Byte(255)>>]
ListBody == [RawBody EXCEPT !.shape = "list", !.bytes = <<>>]
ObjBody  == [RawBody EXCEPT !.shape = "object", !.bytes = <<>>]
DictBody == [ObjBody EXCEPT !.data = "dict"]

NamesExample == <<"I","M","G","_","0","0","1","M",".","j","p","g",";",
                  "s","i","t","e","_","m","a","p",".","j","p","g",";",
                  "I","M","G","_","0","0","1",".","j","p","g">>
NamesNone == <<"d",".","p","d","f",";"," ",";","a","_","M","A","P",".","J","P","E","G">>
NamesGif  == <<"a",".","g","i","f">>

ListingResponses ==
    {[kind |-> "exc",  status |-> 0,   body |-> RawBody],
     [kind |-> "http", status |-> 500, body |-> DictBody],
     [kind |-> "http", status |-> 200, body |-> RawBody],
     [kind |-> "http", status |-> 200, body |-> ListBody],
     [kind |-> "http", status |-> 200, body |-> ObjBody],
     [kind |-> "http", status |-> 200, body |-> DictBody]}
    \cup { [kind |-> "http", status |-> 200, body |-> [DictBody EXCEPT !.formdata_filenames = n]] :
           n \in {<<>>, NamesExample, NamesNone, NamesGif} }

\* base64 texts: with a data-URI prefix, without, badly padded, empty
PayloadUri   == <<"d",":","i",";","b",",","/","9","j","/">>
PayloadPlain == <<"Q","U","I","=">>
PayloadBad   == <<"Q","U","I">>

DownloadResponses ==
    {[kind |-> "exc",  status |-> 0,   body |-> RawBody],
     [kind |-> "http", status |-> 500, body |-> DictBody],
     [kind |-> "http", status |-> 200, body |-> RawBody],
     [kind |-> "http", status |-> 200, body |-> DictBody]}
    \cup { [kind |-> "http", status |-> 200, body |-> [DictBody EXCEPT !.txt_file = t]] :
           t \in {PayloadUri, PayloadPlain, PayloadBad, <<>>} }

(***************************************************************************)
(* State                                                                    *)
(***************************************************************************)
VARIABLES
    fpc,     \* position of the script: "start", "loop", "resolve", "show",
             \* "done", "empty" (the else branch of the feed), "crashed"
    raw,     \* how the upstream answered get_data: kind and status (the rows
             \* live on in df only)
    df,      \* the data frame get_data returned
    idx,     \* the row the feed loop is at (1-based)
    items,   \* the items displayed so far, in display order
    rpc,     \* position of fetch_verint_image: "idle", "page", "handshake",
             \* "list", "download"
    call,    \* locals of the running fetch_verint_image call
    hdr,     \* its headers dict
    sent,    \* the requests it has issued, each with the headers it carried
    got,     \* the responses it has received
    result,  \* what get_image_content returned for the row at idx
    cache,   \* st.cache_data of fetch_verint_image: entries [url, value, at]
    reqs,    \* every request of this script run: [rec, kind]
    seen,    \* what get_image_content returned for each row so far: [rec, type]
    ncalls,  \* requests.Session objects created so far
    jar,     \* the cookies held by the requests.Session created last
    now      \* the clock, in seconds (one script run is short against the
             \* cache lifetimes: Spec does not advance it)

vars == <<fpc, raw, df, idx, items, rpc, call, hdr, sent, got, result, cache, reqs,
          seen, ncalls, jar, now>>

\* ttl=3600 of the cache of fetch_verint_image
CacheTtl == 3600

NoCall == [url |-> None, caseid |-> None, final_referer |-> None, formref |-> None,
           csrf_token |-> None, target_filename |-> None, session |-> 0]
\* the headers that vary; User-Agent, Origin and Content-Type are fixed texts
InitHdr == [Referer |-> UFixedReferer, XCsrfToken |-> None, Authorization |-> None]

Pending  == [type |-> "pending", content |-> None]
NoResult == [type |-> "none", content |-> None]

UnsetResponse == [kind |-> "unset", status |-> 0, rows |-> <<>>]

Init ==
    /\ fpc = "start"
    /\ raw = UnsetResponse
    /\ df = EmptyDf
    /\ idx = 0
    /\ items = <<>>
    /\ rpc = "idle"
    /\ call = NoCall
    /\ hdr = InitHdr
    /\ sent = <<>>
    /\ got = <<>>
    /\ result = Pending
    /\ cache = {}
    /\ reqs = <<>>
    /\ seen = <<>>
    /\ ncalls = 0
    /\ jar = {}
    /\ now = 0

(***************************************************************************)
(* The feed script                                                          *)
(***************************************************************************)
\* mutant: get_data without its try/except, a failed request ends the script
FetchData_Unguarded ==
    /\ fpc = "start"
    /\ \E resp \in UpstreamResponses :
          /\ raw' = [resp EXCEPT !.rows = <<>>]
          /\ df' = GetData(resp)
          /\ fpc' = IF resp.kind = "exc" THEN "crashed"
                    ELSE IF GetData(resp).rows = <<>> THEN "empty" ELSE "loop"
    /\ idx' = 1
    /\ UNCHANGED <<items, rpc, call, hdr, sent, got, result, cache, reqs, seen, ncalls, jar,
                   now>>

\* df = get_data(st.session_state.limit); if not df.empty: ... else: st.info(...)
\* with the upstream answering one of responses
FetchFrom(responses) ==
    /\ fpc = "start"
    /\ \E resp \in responses :
          /\ raw' = [resp EXCEPT !.rows = <<>>]
          /\ df' = GetData(resp)
          /\ fpc' = IF GetData(resp).rows = <<>> THEN "empty" ELSE "loop"
    /\ idx' = 1
    /\ UNCHANGED <<items, rpc, call, hdr, sent, got, result, cache, reqs, seen, ncalls, jar,
                   now>>

FetchData == FetchFrom(UpstreamResponses)

DuplicateWord == <<"d","u","p","l","i","c","a","t","e">>

\* notes = str(row.get('status_notes', '')).lower(): '' when the frame has no
\* such column, 'nan' when the cell is NaN
NotesText(cols, row) ==
    IF "status_notes" \notin cols THEN <<>>
    ELSE IF IsAbsent(row.status_notes) THEN <<"n","a","n">>
    ELSE Lower(Val(row.status_notes))

\* if 'duplicate' in notes: continue
IsDuplicate(cols, row) == Contains(NotesText(cols, row), DuplicateWord)

\* mutant: the wrapper test comes before the image-suffix test
MediaBranch_WrapperFirst(cols, row) ==
    IF "media_url" \notin cols THEN "none"
    ELSE IF IsAbsent(row.media_url) THEN "raise"
    ELSE LET url == Val(row.media_url).url
         IN  IF ~Truthy(url) THEN "none"
             ELSE IF LooksLikeWrapper(url) THEN "wrapper"
             ELSE IF IsDirectImage(url) THEN "direct"
             ELSE "fallback"

\* The branch get_image_content(row.get('media_url')) takes: "raise" (NaN has
\* no split), "none" (None, False), "direct" (url, "url") for an image suffix,
\* "wrapper" (fetch_verint_image is called), "fallback" (url, "url").
MediaBranch(cols, row) ==
    IF "media_url" \notin cols THEN "none"
    ELSE IF IsAbsent(row.media_url) THEN "raise"
    ELSE LET url == Val(row.media_url).url
         IN  IF ~Truthy(url) THEN "none"
             ELSE IF IsDirectImage(url) THEN "direct"
             ELSE IF LooksLikeWrapper(url) THEN "wrapper"
             ELSE "fallback"

\* The statements between st.image and display_count += 1 raise: NaT.strftime,
\* NaN.replace (subtype, address), row['lat'] / row['long'] on a missing column
DisplayRaises(cols, row) ==
    \/ "requested_datetime" \in cols /\ IsAbsent(row.requested_datetime)
    \/ "service_subtype" \in cols /\ IsAbsent(row.service_subtype)
    \/ "address" \in cols /\ IsAbsent(row.address)
    \/ "lat" \notin cols
    \/ "long" \notin cols

\* mutant: an entry never expires
CacheHits_NoTtl(c, url, t) == { e \in c : e.url = url }

\* mutant: only a successful result is kept
CacheStore_SuccessOnly(c, url, v, t) ==
    IF Truthy(v)
    THEN { e \in c : e.url # url } \cup {[url |-> url, value |-> v, at |-> t]}
    ELSE c

\* the live entry of the cache for url, if any
CacheHits(c, url, t) == { e \in c : e.url = url /\ t - e.at < CacheTtl }
CacheStore(c, url, v, t) == { e \in c : e.url # url } \cup {[url |-> url, value |-> v, at |-> t]}

\* image_bytes = fetch_verint_image(url); if image_bytes: return image_bytes, "bytes"
BytesResult(v) == IF Truthy(v) THEN [type |-> "bytes", content |-> v] ELSE NoResult

CurRow == df.rows[idx]

\* for index, row in df.iterrows(): the loop is over
Finish ==
    /\ fpc = "loop"
    /\ idx > Len(df.rows)
    /\ fpc' = "done"
    /\ UNCHANGED <<raw, df, idx, items, rpc, call, hdr, sent, got, result, cache, reqs,
                   seen, ncalls, jar, now>>

SkipDuplicate ==
    /\ fpc = "loop"
    /\ idx <= Len(df.rows)
    /\ IsDuplicate(df.cols, CurRow)
    /\ idx' = idx + 1
    /\ UNCHANGED <<fpc, raw, df, items, rpc, call, hdr, sent, got, result, cache, reqs,
                   seen, ncalls, jar, now>>

\* mutant: one module-level session serves every call, its cookies stay
NewJar_Shared(old) == old

\* session = requests.Session(): the new session starts with no cookie, whatever
\* the session of the call before (old) had collected
NewJar(old) == {}

\* get_image_content up to its return or to the first request of
\* fetch_verint_image (cache lookup, session and headers, case id)
Classify ==
    /\ fpc = "loop"
    /\ idx <= Len(df.rows)
    /\ ~IsDuplicate(df.cols, CurRow)
    /\ LET b   == MediaBranch(df.cols, CurRow)
           url == Val(CurRow.media_url).url
       IN  CASE b = "raise" ->
                  /\ fpc' = "crashed"
                  /\ UNCHANGED <<rpc, call, hdr, result, cache, ncalls, jar>>
             [] b = "none" ->
                  /\ fpc' = "show"
                  /\ result' = NoResult
                  /\ UNCHANGED <<rpc, call, hdr, cache, ncalls, jar>>
             [] b \in {"direct", "fallback"} ->
                  /\ fpc' = "show"
                  /\ result' = [type |-> "url", content |-> url]
                  /\ UNCHANGED <<rpc, call, hdr, cache, ncalls, jar>>
             [] b = "wrapper" /\ CacheHits(cache, url, now) # {} ->
                  /\ fpc' = "show"
                  /\ result' = BytesResult((CHOOSE e \in CacheHits(cache, url, now) : TRUE).value)
                  /\ UNCHANGED <<rpc, call, hdr, cache, ncalls, jar>>
             [] b = "wrapper" /\ CacheHits(cache, url, now) = {} ->
                  /\ ncalls' = ncalls + 1
                  /\ jar' = NewJar(jar)
                  /\ hdr' = InitHdr
                  /\ call' = [NoCall EXCEPT !.url = url, !.caseid = UrlCaseId(url),
                                            !.session = ncalls + 1]
                  /\ IF ~Truthy(UrlCaseId(url))
                     THEN /\ cache' = CacheStore(cache, url, None, now)
                          /\ result' = NoResult
                          /\ fpc' = "show"
                          /\ rpc' = "idle"
                     ELSE /\ fpc' = "resolve"
                          /\ rpc' = "page"
                          /\ UNCHANGED <<cache, result>>
    /\ UNCHANGED <<raw, df, idx, items, sent, got, reqs, seen, now>>

\* mutant: a displayed item is put in front of the earlier ones
Show_Prepend ==
    /\ fpc = "show"
    /\ IF result.type = "none"
       THEN /\ fpc' = "loop"
            /\ idx' = idx + 1
            /\ UNCHANGED items
       ELSE IF DisplayRaises(df.cols, CurRow)
       THEN /\ fpc' = "crashed"
            /\ UNCHANGED <<idx, items>>
       ELSE /\ fpc' = "loop"
            /\ idx' = idx + 1
            /\ items' = <<[rec |-> idx, id |-> CurRow.id,
                           type |-> result.type, content |-> result.content]>> \o items
    /\ seen' = Append(seen, [rec |-> idx, type |-> result.type])
    /\ result' = Pending
    /\ call' = NoCall
    /\ hdr' = InitHdr
    /\ sent' = <<>>
    /\ got' = <<>>
    /\ UNCHANGED <<raw, df, rpc, cache, reqs, ncalls, jar, now>>

\* if media_content: the display block and display_count += 1; then the next row.
\* (When the block raises, st.image has already drawn the picture; no item is
\* counted and the script stops.)
Show ==
    /\ fpc = "show"
    /\ IF result.type = "none"
       THEN /\ fpc' = "loop"
            /\ idx' = idx + 1
            /\ UNCHANGED items
       ELSE IF DisplayRaises(df.cols, CurRow)
       THEN /\ fpc' = "crashed"
            /\ UNCHANGED <<idx, items>>
       ELSE /\ fpc' = "loop"
            /\ idx' = idx + 1
            /\ items' = Append(items, [rec |-> idx, id |-> CurRow.id,
                                       type |-> result.type, content |-> result.content])
    /\ seen' = Append(seen, [rec |-> idx, type |-> result.type])
    /\ result' = Pending
    /\ call' = NoCall
    /\ hdr' = InitHdr
    /\ sent' = <<>>
    /\ got' = <<>>
    /\ UNCHANGED <<raw, df, rpc, cache, reqs, ncalls, jar, now>>

(***************************************************************************)
(* fetch_verint_image: one action per request; each action runs the code    *)
(* from the request to the next request or to the return                    *)
(***************************************************************************)
Request(kind, headers) ==
    [kind |-> kind, session |-> call.session, headers |-> headers, cookies |-> jar,
     caseid |-> call.caseid, formref |-> call.formref, filename |-> call.target_filename]

\* the cookies a response sets
SetCookies(r) ==
    IF "set_cookie" \in DOMAIN r /\ r.set_cookie # None THEN {r.set_cookie} ELSE {}

\* a request leaves on the session of the call; the response r comes back and
\* the session keeps its cookies
Exchange(kind, headers, r) ==
    /\ jar' = jar \cup SetCookies(r)
    /\ sent' = Append(sent, Request(kind, headers))
    /\ got' = Append(got, [kind |-> kind, resp |-> r])
    /\ reqs' = Append(reqs, [rec |-> idx, kind |-> kind])

\* fetch_verint_image returns v: the cache keeps it, get_image_content returns
Return(v) ==
    /\ cache' = CacheStore(cache, call.url, v, now)
    /\ result' = BytesResult(v)
    /\ rpc' = "idle"
    /\ fpc' = "show"

\* mutant: the status of the page response is not looked at
PageOutcome_IgnoreStatus(r) ==
    IF r.kind = "exc" THEN None ELSE ExtractFormref(r.html)

\* mutant: a page without a formref goes on with a default form reference
PageOutcome_DefaultFormref(r) ==
    IF r.kind = "exc" THEN None
    ELSE IF r.status # 200 THEN None
    ELSE IF ExtractFormref(r.html) = None THEN <<"F","0">>
    ELSE ExtractFormref(r.html)

\* the value of the page step: None when the call ends there, else the formref
PageOutcome(r) ==
    IF r.kind = "exc" THEN None
    ELSE IF r.status # 200 THEN None
    ELSE ExtractFormref(r.html)

\* STEP 1 and STEP 2
PageFetch ==
    /\ rpc = "page"
    /\ \E r \in PageResponses :
          /\ Exchange("page", hdr, r)
          /\ IF ~Truthy(PageOutcome(r))
             THEN /\ Return(None)
                  /\ UNCHANGED call
             ELSE /\ call' = [call EXCEPT
                                !.final_referer = IF r.redirected THEN URedir ELSE call.url,
                                !.formref = PageOutcome(r),
                                !.csrf_token = ExtractCsrf(r.html)]
                  /\ rpc' = "handshake"
                  /\ UNCHANGED <<fpc, result, cache>>
    /\ UNCHANGED <<raw, df, idx, items, hdr, seen, ncalls, now>>

\* the headers the handshake request carries
HandshakeHeaders(h, c) ==
    [h EXCEPT !.Referer = c.final_referer,
              !.XCsrfToken = IF Truthy(c.csrf_token) THEN c.csrf_token ELSE h.XCsrfToken]

\* mutant: the Authorization response header is not taken over
AfterHandshake_NoAdopt(h, r) == h

\* the headers after the handshake: the try block adopts an Authorization
\* response header; an exception leaves the headers as they were sent
AfterHandshake(h, r) ==
    IF r.kind = "http" /\ r.auth # None THEN [h EXCEPT !.Authorization = r.auth] ELSE h

\* mutant: a handshake that raises or is refused ends the call
Handshake_Fatal ==
    /\ rpc = "handshake"
    /\ \E r \in HandshakeResponses :
          /\ Exchange("handshake", HandshakeHeaders(hdr, call), r)
          /\ hdr' = AfterHandshake(HandshakeHeaders(hdr, call), r)
          /\ IF r.kind = "exc" \/ r.status # 200
             THEN Return(None)
             ELSE /\ rpc' = "list"
                  /\ UNCHANGED <<fpc, result, cache>>
    /\ UNCHANGED <<raw, df, idx, items, call, seen, ncalls, now>>

\* STEP 3
Handshake ==
    /\ rpc = "handshake"
    /\ \E r \in HandshakeResponses :
          /\ Exchange("handshake", HandshakeHeaders(hdr, call), r)
          /\ hdr' = AfterHandshake(HandshakeHeaders(hdr, call), r)
    /\ rpc' = "list"
    /\ UNCHANGED <<fpc, raw, df, idx, items, call, result, cache, seen, ncalls, now>>

\* mutant: without an accepted name the first name of the list is downloaded
ListingOutcome_FirstName(r) ==
    IF r.kind = "exc" THEN None
    ELSE IF r.status # 200 THEN None
    ELSE LET filename_str == ListingFilenames(r.body)
         IN  IF filename_str = DecodeError THEN None
             ELSE IF ~Truthy(filename_str) THEN None
             ELSE IF TargetFilename(filename_str) = None
             THEN Strip(Head(Split(filename_str, ";")))
             ELSE TargetFilename(filename_str)

\* the value of the listing step: None when the call ends there, else the
\* target_filename
ListingOutcome(r) ==
    IF r.kind = "exc" THEN None
    ELSE IF r.status # 200 THEN None
    ELSE LET filename_str == ListingFilenames(r.body)
         IN  IF filename_str = DecodeError THEN None
             ELSE IF ~Truthy(filename_str) THEN None
             ELSE TargetFilename(filename_str)

\* STEP 4 and STEP 5
Listing ==
    /\ rpc = "list"
    /\ \E r \in ListingResponses :
          /\ Exchange("list", hdr, r)
          /\ IF ~Truthy(ListingOutcome(r))
             THEN /\ Return(None)
                  /\ UNCHANGED call
             ELSE /\ call' = [call EXCEPT !.target_filename = ListingOutcome(r)]
                  /\ rpc' = "download"
                  /\ UNCHANGED <<fpc, result, cache>>
    /\ UNCHANGED <<raw, df, idx, items, hdr, seen, ncalls, now>>

\* the value fetch_verint_image returns after the download response r
DownloadOutcome(r) ==
    IF r.kind = "exc" THEN None
    ELSE IF r.status = 200 THEN UnwrapDownload(r.body)
    ELSE None

\* STEP 6, with the portal answering one of responses
DownloadFrom(responses) ==
    /\ rpc = "download"
    /\ \E r \in responses :
          /\ Exchange("download", hdr, r)
          /\ Return(DownloadOutcome(r))
    /\ UNCHANGED <<raw, df, idx, items, call, hdr, seen, ncalls, now>>

Download == DownloadFrom(DownloadResponses)

Next ==
    \/ FetchData
    \/ Finish
    \/ SkipDuplicate
    \/ Classify
    \/ Show
    \/ PageFetch
    \/ Handshake
    \/ Listing
    \/ Download

Spec == Init /\ [][Next]_vars

(***************************************************************************)
(* The script over time: the clock advances between two rows, and the       *)
(* script runs again (Load More, a reload, another visitor) with the caches *)
(* of st.cache_data kept                                                    *)
(***************************************************************************)
MaxTicks == 2
TickSeconds == CacheTtl \div 2
MaxClock == MaxTicks * TickSeconds

\* frames whose rows go through the resolver, the same wrapper URL twice or two
\* different ones, and one with a row the loop skips
CacheFrames ==
    {<<RowWrap1>>, <<RowWrap1, RowWrap1>>, <<RowWrap1, RowWrap2>>, <<RowWrap2, RowWrap1>>,
     <<RowDup, RowWrap1>>}

CacheResponses ==
    {[kind |-> "exc", status |-> 0, rows |-> <<>>]}
    \cup { [kind |-> "http", status |-> 200, rows |-> r] : r \in CacheFrames }

FetchCacheRows == FetchFrom(CacheResponses)

\* time passes between two rows of the loop
Tick ==
    /\ fpc = "loop"
    /\ now < MaxClock
    /\ now' = now + TickSeconds
    /\ UNCHANGED <<fpc, raw, df, idx, items, rpc, call, hdr, sent, got, result, cache, reqs,
                   seen, ncalls, jar>>

\* st.rerun() after Load More, or a later visit: the script starts over, only
\* the st.cache_data entries survive. (The rerun is taken TickSeconds later,
\* which is past the 300 s of get_data's own cache: the rows are queried again.)
Rerun ==
    /\ fpc \in {"done", "empty", "crashed"}
    /\ now < MaxClock
    /\ now' = now + TickSeconds
    /\ fpc' = "start"
    /\ raw' = UnsetResponse
    /\ df' = EmptyDf
    /\ idx' = 0
    /\ items' = <<>>
    /\ rpc' = "idle"
    /\ call' = NoCall
    /\ hdr' = InitHdr
    /\ sent' = <<>>
    /\ got' = <<>>
    /\ result' = Pending
    /\ reqs' = <<>>
    /\ seen' = <<>>
    /\ UNCHANGED <<cache, ncalls, jar>>

(***************************************************************************)
(* The resolver against a portal whose download answers are envelopes of    *)
(* arbitrary bytes                                                          *)
(***************************************************************************)
\* the longest byte sequence put in an envelope
MaxBytes == 3
ByteSamples == {0, 65, 216, 255}
ByteSeqs == SeqsUpTo(ByteSamples, MaxBytes)

\* the standard base64 text of the bytes b (RFC 4648, with padding)
RECURSIVE B64Encode(_)
B64Encode(b) ==
    IF b = <<>> THEN <<>>
    ELSE IF Len(b) = 1
    THEN <<B64Alphabet[(b[1] \div 4) + 1], B64Alphabet[(b[1] % 4) * 16 + 1], "=", "=">>
    ELSE IF Len(b) = 2
    THEN <<B64Alphabet[(b[1] \div 4) + 1],
           B64Alphabet[(b[1] % 4) * 16 + (b[2] \div 16) + 1],
           B64Alphabet[(b[2] % 16) * 4 + 1], "=">>
    ELSE <<B64Alphabet[(b[1] \div 4) + 1],
           B64Alphabet[(b[1] % 4) * 16 + (b[2] \div 16) + 1],
           B64Alphabet[(b[2] % 16) * 4 + (b[3] \div 64) + 1],
           B64Alphabet[(b[3] % 64) + 1]>> \o B64Encode(SubSeq(b, 4, Len(b)))

\* "data:image/jpeg;base64" in short, and no prefix at all
DataUriPrefix == <<"d",":","i",";","b",",">>
EnvelopePrefixes == {DataUriPrefix, <<>>}

\* the txt_file of an envelope of b
Envelope(prefix, b) == prefix \o B64Encode(b)

RoundTripResponses ==
    { [kind |-> "http", status |-> 200,
       body |-> [DictBody EXCEPT !.txt_file = Envelope(p, b)]] :
      p \in EnvelopePrefixes, b \in ByteSeqs }

UnwrapResponses ==
    { [kind |-> "http", status |-> 200, rows |-> r] : r \in {<<RowWrap1>>, <<RowDup, RowWrap1>>} }

FetchUnwrapRows == FetchFrom(UnwrapResponses)
DownloadEnvelope == DownloadFrom(RoundTripResponses)

NextUnwrap ==
    \/ FetchUnwrapRows
    \/ Finish
    \/ SkipDuplicate
    \/ Classify
    \/ Show
    \/ PageFetch
    \/ Handshake
    \/ Listing
    \/ DownloadEnvelope

SpecUnwrap == Init /\ [][NextUnwrap]_vars

NextCache ==
    \/ FetchCacheRows
    \/ Finish
    \/ SkipDuplicate
    \/ Classify
    \/ Show
    \/ PageFetch
    \/ Handshake
    \/ Listing
    \/ Download
    \/ Tick
    \/ Rerun

SpecCache == Init /\ [][NextCache]_vars

(***************************************************************************)
(* Properties                                                               *)
(***************************************************************************)
\* the requests of the script run made for row i
RequestsFor(i) == { k \in 1..Len(reqs) : reqs[k].rec = i }

\* the response to the page fetch of the running call, once it is in
PageAnswered == Len(got) >= 1 /\ got[1].kind = "page"
PageResponse == got[1].resp

\* the page fetch came back with a status that is not a success
PageRefused == PageAnswered /\ PageResponse.kind = "http" /\ PageResponse.status \notin 200..299

\* C1: when the page fetch of a call returns a non-success status (404), the
\* call has issued that one request and no other, for as long as the call
\* lasts, and it has returned Unresolved.
C1_PageFailureShortCircuits ==
    PageRefused =>
        /\ Len(sent) = 1
        /\ Cardinality(RequestsFor(idx)) = 1
        /\ rpc = "idle"
        /\ fpc = "show"
        /\ result = NoResult

C1_Witness == PageRefused /\ PageResponse.status = 404 /\ fpc = "show"

\* the page came back with status 200 and holds no formref literal
PageLacksFormref ==
    /\ PageAnswered
    /\ PageResponse.kind = "http"
    /\ PageResponse.status = 200
    /\ \A i \in 1..Len(PageResponse.html) : ~HasAt(PageResponse.html, i, FormrefLit)

\* C2: when the fetched page holds no formref literal, the call returns
\* Unresolved having issued the page fetch alone (no handshake, listing or
\* download), and the step that consumes the result displays no item for the
\* row and issues no request.
C2_MissingFormrefUnresolved ==
    /\ [](PageLacksFormref =>
            /\ Len(sent) = 1
            /\ \A k \in RequestsFor(idx) : reqs[k].kind = "page"
            /\ rpc = "idle"
            /\ fpc = "show"
            /\ result = NoResult
            /\ \A k \in 1..Len(items) : items[k].rec # idx)
    /\ [][PageLacksFormref => (items' = items /\ reqs' = reqs /\ idx' = idx + 1)]_vars

C2_Witness == PageLacksFormref /\ fpc = "show" /\ Len(df.rows) > idx

\* the page came back with status 200 and a formref was extracted
PageYieldsFormref ==
    /\ PageAnswered
    /\ PageResponse.kind = "http"
    /\ PageResponse.status = 200
    /\ ExtractFormref(PageResponse.html) # None

HandshakeAnswered == Len(got) >= 2
HandshakeFailed ==
    /\ HandshakeAnswered
    /\ \/ got[2].resp.kind = "exc"
       \/ got[2].resp.status # 200
       \/ got[2].resp.auth = None

\* C3: once the page fetch has succeeded and a formref is extracted, the call
\* goes on to the handshake and, whatever the handshake returned and whether
\* or not a CSRF token was found, to the listing request: the call cannot
\* return before the listing request has been issued.
C3_HandshakeNonFatal ==
    PageYieldsFormref =>
        /\ Len(got) = 1 => (rpc = "handshake" /\ fpc = "resolve")
        /\ HandshakeAnswered => got[2].kind = "handshake"
        /\ Len(got) = 2 => (rpc = "list" /\ fpc = "resolve")
        /\ Len(got) >= 3 => sent[3].kind = "list"
        /\ fpc = "show" => \E k \in 1..Len(sent) : sent[k].kind = "list"

C3_Witness ==
    /\ PageYieldsFormref
    /\ HandshakeFailed
    /\ got[2].resp.kind = "exc"
    /\ call.csrf_token = None
    /\ Len(sent) >= 3
    /\ sent[3].kind = "list"

\* the response to the download request of the running call, once it is in
DownloadAnswered == Len(got) = 4 /\ got[4].kind = "download"
DownloadResponse == got[4].resp

\* what C4 says get_image_content yields for a download response
C4_Expected(r) ==
    IF r.kind = "http" /\ r.status \in 200..299
    THEN IF r.body.shape = "raw" THEN [type |-> "bytes", content |-> r.body.bytes]
         ELSE IF r.body.shape = "object" /\ r.body.data = "dict" /\ r.body.txt_file # None
         THEN LET d == B64Decode(StripDataUri(r.body.txt_file))
              IN  IF d = DecodeError THEN NoResult ELSE BytesResult(d)
         ELSE NoResult
    ELSE NoResult

\* C4: after a successful download response the resolver yields Bytes for both
\* shapes, the raw binary body itself or the decoded payload of a JSON
\* envelope; a non-success status or a decode failure yields Unresolved.
C4_BothShapesSupported == DownloadAnswered => result = C4_Expected(DownloadResponse)

\* the response to the listing request of the running call, right after it
ListingAnswered == Len(got) >= 3 /\ got[3].kind = "list"
ListingResponse == got[3].resp
ListingNames == ListingResponse.body.formdata_filenames
ListingHasNames ==
    /\ ListingAnswered
    /\ ListingResponse.kind = "http"
    /\ ListingResponse.status = 200
    /\ ListingResponse.body.shape = "object"
    /\ ListingResponse.body.data = "dict"
    /\ Truthy(ListingNames)

IsLetter(c) == \E i \in 1..Len(LowerChars) : LowerChars[i] = LowerChar(c)
IsDigit(c) == c \in {"0","1","2","3","4","5","6","7","8","9"}

\* the file name without its raster-image extension (None when it has none)
StemOf(fname) ==
    LET f == Lower(fname)
        exts == { e \in ImageExts : EndsWith(f, e) }
    IN  IF exts = {} THEN None
        ELSE SubSeq(f, 1, Len(f) - Len(CHOOSE e \in exts : TRUE))

\* eligibility as C5 words it: a raster-image extension, no single-letter
\* thumbnail suffix after the number (IMG_001M), no _map suffix
C5_Eligible(fname) ==
    LET stem == StemOf(fname)
    IN  /\ stem # None
        /\ ~(Len(stem) >= 2 /\ IsLetter(stem[Len(stem)]) /\ IsDigit(stem[Len(stem) - 1]))
        /\ ~EndsWith(stem, <<"_","m","a","p">>)

RECURSIVE C5_First(_)
C5_First(files) ==
    IF files = <<>> THEN None
    ELSE IF C5_Eligible(Strip(Head(files))) THEN Strip(Head(files))
    ELSE C5_First(Tail(files))

\* C5: the file selected from a listing is the first entry with a raster-image
\* extension (.jpg .jpeg .png .gif .webp .bmp) that is neither a thumbnail nor
\* a map rendering; with no such entry the call returns Unresolved and issues
\* no download.
C5_FirstEligibleSelected ==
    ListingHasNames =>
        IF C5_First(Split(ListingNames, ";")) = None
        THEN /\ Len(sent) = 3
             /\ fpc = "show"
             /\ result = NoResult
        ELSE /\ call.target_filename = C5_First(Split(ListingNames, ";"))
             /\ Len(sent) = 3 => rpc = "download"

\* the part of a reference before its query string ends, letter case aside, in
\* one of the six image extensions
PathEndsInImageExt(url) ==
    LET q == IndexOf(url, "?")
        path == IF q = 0 THEN url ELSE SubSeq(url, 1, q - 1)
    IN  \E ext \in ImageExts :
            /\ Len(path) >= Len(ext)
            /\ \A k \in 1..Len(ext) : LowerChar(path[Len(path) - Len(ext) + k]) = ext[k]

\* the row at idx is being resolved or its result is in, and it has a reference
RowHasReference ==
    /\ fpc \in {"resolve", "show"}
    /\ ~IsAbsent(CurRow.media_url)
    /\ Truthy(Val(CurRow.media_url).url)

\* C6: a reference whose path ends in an image extension (query string and
\* letter case aside) comes back from get_image_content as the reference
\* itself, typed as a URL, and no request is made for the row, also when the
\* reference carries a caseid parameter.
C6_DirectImageClassified ==
    (RowHasReference /\ PathEndsInImageExt(Val(CurRow.media_url).url)) =>
        /\ fpc = "show"
        /\ result = [type |-> "url", content |-> Val(CurRow.media_url).url]
        /\ RequestsFor(idx) = {}
        /\ sent = <<>>
        /\ rpc = "idle"

C6_Witness ==
    /\ fpc = "show"
    /\ CurRow.media_url = StrMedia(UDirectQ)
    /\ Contains(UDirectQ, CaseIdWord)
    /\ result.type = "url"

\* C7: every row of the frame get_data returns that has a location lies within
\* the radius of at least one site, whatever rows the upstream returned with
\* status 200.
C7_ResultWithinRadius ==
    (fpc # "start" /\ raw.kind = "http" /\ raw.status = 200) =>
        \A i \in 1..Len(df.rows) :
            (~IsAbsent(df.rows[i].lat) /\ ~IsAbsent(df.rows[i].long)) =>
                \E s \in 1..Len(Sites) :
                    DistSq(Sites[s], Val(df.rows[i].lat), Val(df.rows[i].long))
                        <= RadiusDm * RadiusDm

Displayed(i) == \E k \in 1..Len(items) : items[k].rec = i

\* the resolution of row i did not yield Unresolved: by the value
\* get_image_content returned, or, for a row the loop never reached, by its
\* reference being one that needs no request
ResolvesOk(i) ==
    IF \E k \in 1..Len(seen) : seen[k].rec = i
    THEN \E k \in 1..Len(seen) : seen[k].rec = i /\ seen[k].type # "none"
    ELSE /\ ~IsAbsent(df.rows[i].media_url)
         /\ Truthy(Val(df.rows[i].media_url).url)
         /\ \/ PathEndsInImageExt(Val(df.rows[i].media_url).url)
            \/ ~Contains(Lower(Val(df.rows[i].media_url).url), CaseIdWord)

PassOver == fpc \in {"done", "crashed"}

\* C8: when the pass is over, a row has a display item if and only if it is
\* not duplicate-marked and its resolution did not yield Unresolved.
C8_DisplayedIffEligible ==
    PassOver =>
        \A i \in 1..Len(df.rows) :
            Displayed(i) <=> (~IsDuplicate(df.cols, df.rows[i]) /\ ResolvesOk(i))

\* C9: the displayed items are a subsequence of the fetched rows in fetch
\* order (each row at most once, none out of order), and resolutions run one
\* row at a time: requests are issued in row order, only for the row the loop
\* is at, and only on the session of the one running call.
C9_OrderAndSequential ==
    /\ \A k \in 1..Len(items) :
          /\ items[k].rec \in 1..Len(df.rows)
          /\ items[k].rec < idx
          /\ items[k].id = df.rows[items[k].rec].id
    /\ \A k, l \in 1..Len(items) : k < l => items[k].rec < items[l].rec
    /\ \A k, l \in 1..Len(reqs) : k < l => reqs[k].rec <= reqs[l].rec
    /\ \A k \in 1..Len(reqs) : reqs[k].rec <= idx
    /\ \A k \in 1..Len(sent) : sent[k].session = ncalls /\ call.session = ncalls
    /\ rpc # "idle" =>
          /\ fpc = "resolve"
          /\ call.url = Val(CurRow.media_url).url
          /\ \A k \in 1..Len(reqs) : reqs[k].rec = idx => k > Len(reqs) - Len(sent)

C9_Witness ==
    /\ fpc = "done"
    /\ Len(items) = 2
    /\ RequestsFor(1) # {}
    /\ RequestsFor(2) # {}

\* C10: a failure while one row is processed drops at most that row: the pass
\* ends normally and every row that is not duplicate-marked has been handed to
\* get_image_content.
C10_RecordErrorsContained ==
    fpc \notin {"start", "loop", "resolve", "show"} =>
        /\ fpc \in {"done", "empty"}
        /\ \A i \in 1..Len(df.rows) :
              IsDuplicate(df.cols, df.rows[i]) \/ \E k \in 1..Len(seen) : seen[k].rec = i

\* C11: when the upstream query fails in transport, returns a body that cannot be
\* parsed or answers with a status other than 200, get_data returns the empty
\* frame, the script does not crash and ends in the empty state (st.info) with no
\* item and no resolver request
UpstreamFailed == raw.kind = "exc" \/ (raw.kind = "http" /\ raw.status # 200)

C11_FetchFailSoft ==
    (fpc # "start" /\ UpstreamFailed) =>
        /\ df = EmptyDf
        /\ fpc = "empty"
        /\ items = <<>> /\ reqs = <<>> /\ seen = <<>>

C11_Witness == fpc = "empty" /\ raw.kind = "exc"

\* C12: every request of a call goes out on the session created by that call,
\* and carries only what that call itself obtained: the first request has no
\* cookie and the initial headers, a later one has only cookies set by the
\* responses of this call, the CSRF token and referrer of this call's page and
\* the Authorization of this call's handshake response
OwnCookies(k) == UNION { SetCookies(got[j].resp) : j \in 1..(k - 1) }

OwnReferers ==
    {UFixedReferer} \cup
    (IF PageAnswered /\ PageResponse.kind = "http"
     THEN {IF PageResponse.redirected THEN URedir ELSE call.url} ELSE {})

\* the token each of the pages holds in its meta tag
TokenOf(html) == IF html = PageNoCsrf THEN None ELSE <<"T","1">>

OwnCsrf ==
    {None} \cup (IF PageAnswered /\ PageResponse.kind = "http"
                 THEN {TokenOf(PageResponse.html)} ELSE {})

OwnAuth ==
    {None} \cup (IF HandshakeAnswered /\ got[2].resp.kind = "http"
                 THEN {got[2].resp.auth} ELSE {})

C12_SessionIsolation ==
    /\ sent # <<>> => (call.session = ncalls /\ call.session > 0)
    /\ \A k \in 1..Len(sent) :
          /\ sent[k].session = call.session
          /\ sent[k].cookies \subseteq OwnCookies(k)
          /\ sent[k].headers.Referer \in OwnReferers
          /\ sent[k].headers.XCsrfToken # None => sent[k].headers.XCsrfToken \in OwnCsrf
          /\ sent[k].headers.Authorization \in OwnAuth
    /\ Len(sent) >= 1 => (sent[1].cookies = {} /\ sent[1].headers = InitHdr)

\* a second call is under way after a call that collected a cookie
C12_Witness ==
    /\ ncalls = 2 /\ Len(sent) >= 2
    /\ \E k \in 1..Len(reqs) : reqs[k].rec # idx /\ reqs[k].kind = "list"

\* the loop stands before a row whose reference goes to fetch_verint_image
ResolutionDue ==
    /\ fpc = "loop" /\ idx \in 1..Len(df.rows)
    /\ ~IsDuplicate(df.cols, CurRow)
    /\ MediaBranch(df.cols, CurRow) = "wrapper"

DueUrl == Val(CurRow.media_url).url

\* the results for u that were computed less than the TTL ago
LiveResults(u) == { e \in cache : e.url = u /\ now - e.at < CacheTtl }

\* the step that resolves the row (not the clock's)
Resolves == fpc' # fpc

\* fetch_verint_image has just run for the row and returned
CallReturned == fpc = "show" /\ call.session # 0

\* C13: a resolution of u that ran and returned bytes b leaves b under u with the
\* time of the call; while less than 3600 s have passed a resolution of u returns
\* b with no request and no new session; when no result for u is that young (it
\* expired, or only other URLs have one) the resolution runs the protocol again
C13_AttachmentCache ==
    /\ [](CallReturned /\ result.type = "bytes" =>
            [url |-> call.url, value |-> result.content, at |-> now] \in cache)
    /\ [][\A e \in cache :
            (ResolutionDue /\ Resolves /\ e \in LiveResults(DueUrl) /\ Truthy(e.value)) =>
                /\ result' = [type |-> "bytes", content |-> e.value]
                /\ reqs' = reqs /\ ncalls' = ncalls /\ cache' = cache
                /\ fpc' = "show"]_vars
    /\ [][(ResolutionDue /\ Resolves /\ LiveResults(DueUrl) = {}) =>
                /\ ncalls' = ncalls + 1
                /\ call'.url = DueUrl
                /\ Truthy(call'.caseid) => (rpc' = "page" /\ fpc' = "resolve")]_vars

\* bytes came from the cache half a TTL after they were fetched, while another
\* URL has a result too
C13_Witness ==
    /\ fpc = "show" /\ result.type = "bytes" /\ call = NoCall
    /\ \E e \in cache : e.url = DueUrl /\ e.value = result.content /\ now - e.at = TickSeconds
    /\ \E e \in cache : e.url # DueUrl

\* C18: a resolution of u that ran and returned None leaves that None under u
\* with the time of the call; while less than 3600 s have passed a resolution of
\* u yields (None, False) with no request and no new session, whatever the
\* upstream would answer, and the row adds no item
C18_FailureMemoized ==
    /\ [](CallReturned /\ result = NoResult =>
            \E e \in cache : e.url = call.url /\ ~Truthy(e.value) /\ e.at = now)
    /\ [][\A e \in cache :
            (ResolutionDue /\ Resolves /\ e \in LiveResults(DueUrl) /\ ~Truthy(e.value)) =>
                /\ result' = NoResult
                /\ reqs' = reqs /\ ncalls' = ncalls /\ cache' = cache
                /\ fpc' = "show"]_vars
    /\ [][(fpc = "show" /\ result = NoResult) => items' = items]_vars

\* a None came from the cache half a TTL after the call that returned it
C18_Witness ==
    /\ fpc = "show" /\ result = NoResult /\ call = NoCall
    /\ MediaBranch(df.cols, CurRow) = "wrapper"
    /\ \E e \in cache : e.url = DueUrl /\ ~Truthy(e.value) /\ now - e.at = TickSeconds
    /\ ncalls >= 1

\* C14: no item of the feed comes from a row whose service_subtype is one of the
\* excluded subtypes, whatever rows the upstream returned
C14_NoExcludedSubtype ==
    \A k \in 1..Len(items) :
        LET row == df.rows[items[k].rec]
        IN  ~(~IsAbsent(row.service_subtype) /\ Val(row.service_subtype) \in ExcludedSubtypes)

\* the bytes b as fetch_verint_image returns them
BytesOf(b) == [i \in 1..Len(b) |-> Byte(b[i])]

\* C15: when the download answers 200 with an envelope whose txt_file is the
\* base64 text of the bytes b, with or without a data-URI prefix and comma in
\* front, fetch_verint_image returns exactly b (and get_image_content returns
\* them as Bytes when b is not empty)
C15_UnwrapRoundTrip ==
    (fpc = "show" /\ DownloadAnswered) =>
        \A p \in EnvelopePrefixes, b \in ByteSeqs :
            DownloadResponse.body.txt_file = Envelope(p, b) =>
                /\ [url |-> call.url, value |-> BytesOf(b), at |-> now] \in cache
                /\ b # <<>> => result = [type |-> "bytes", content |-> BytesOf(b)]

C15_Witness ==
    /\ fpc = "show" /\ DownloadAnswered
    /\ DownloadResponse.body.txt_file = Envelope(DataUriPrefix, <<216, 255>>)
    /\ result = [type |-> "bytes", content |-> <<Byte(216), Byte(255)>>]

\* the final URL of the page of the running call
C16_FinalUrl == IF PageResponse.redirected THEN URedir ELSE call.url

\* C16: in a call, the listing and download requests carry the Authorization
\* header of the handshake response when it had one and none otherwise; the
\* handshake, listing and download requests have the final URL of the page as
\* Referer and carry the CSRF token of the page exactly when the page had one
C16_CredentialPropagation ==
    \A k \in 1..Len(sent) :
        /\ sent[k].kind \in {"handshake", "list", "download"} =>
              /\ sent[k].headers.Referer = C16_FinalUrl
              /\ sent[k].headers.XCsrfToken = TokenOf(PageResponse.html)
        /\ sent[k].kind \in {"list", "download"} =>
              sent[k].headers.Authorization =
                  (IF got[2].resp.kind = "http" THEN got[2].resp.auth ELSE None)

\* a download request after a redirected page with a token and a handshake
\* that handed out a credential
C16_Witness ==
    /\ Len(sent) = 4 /\ sent[4].kind = "download"
    /\ PageResponse.redirected
    /\ sent[4].headers.XCsrfToken # None
    /\ sent[4].headers.Authorization = Bearer

StepOrder == <<"page", "handshake", "list", "download">>

\* a name that step 5 lets through: an image extension it accepts and none of
\* the thumbnail and map endings it skips
C17_Eligible(fname) ==
    /\ fname # <<>>
    /\ \E e \in {<<".","j","p","g">>, <<".","j","p","e","g">>, <<".","p","n","g">>} :
          EndsWith(Lower(fname), e)
    /\ \A m \in {<<"m",".","j","p","g">>, <<"_","m","a","p",".","j","p","g">>,
                 <<"_","m","a","p",".","j","p","e","g">>} : ~EndsWith(Lower(fname), m)

\* the response to request k of the running call is a failure in transport or a
\* status other than success
C17_Failed(k) == got[k].resp.kind = "exc" \/ got[k].resp.status # 200

C19_WrapperLike(i) ==
    /\ ~IsAbsent(df.rows[i].media_url)
    /\ Truthy(Val(df.rows[i].media_url).url)
    /\ ~PathEndsInImageExt(Val(df.rows[i].media_url).url)
    /\ Contains(Lower(Val(df.rows[i].media_url).url), <<"c","a","s","e","i","d">>)

\* the query string of url has a parameter named exactly caseid with a value
C19_HasCaseId(url) ==
    LET q == IndexOf(url, "?")
        pieces == IF q = 0 THEN <<>> ELSE Split(SubSeq(url, q + 1, Len(url)), "&")
    IN  \E n \in 1..Len(pieces) :
            /\ Len(pieces[n]) > 7
            /\ SubSeq(pieces[n], 1, 7) = <<"c","a","s","e","i","d","=">>

\* C19: a row whose reference is no direct image URL and contains "caseid" in
\* any letter case never comes back from get_image_content as a URL, only as
\* bytes or as (None, False); when its query string has no non-empty parameter
\* named exactly caseid, no request is ever made for it, its result is
\* (None, False) and it adds no item
C19_WrapperWithoutCaseId ==
    /\ \A k \in 1..Len(seen) :
          seen[k].type \in {"bytes", "none"} \/ ~C19_WrapperLike(seen[k].rec)
    /\ (fpc \in {"resolve", "show"} /\ result.type = "url") => ~C19_WrapperLike(idx)
    /\ \A i \in 1..Len(df.rows) :
          \/ /\ RequestsFor(i) = {}
             /\ ~Displayed(i)
             /\ (idx = i /\ fpc \in {"resolve", "show"}) =>
                   (fpc = "show" /\ result = NoResult /\ sent = <<>>)
          \/ ~(C19_WrapperLike(i) /\ ~C19_HasCaseId(Val(df.rows[i].media_url).url))

\* the row with CaseID= in capitals has been passed over after a row that was
\* resolved with requests
C19_Witness ==
    /\ \E k \in 1..Len(seen) :
          /\ df.rows[seen[k].rec].id = "wrapupper"
          /\ seen[k].type = "none"
    /\ reqs # <<>>

====
